---- MODULE Spec2Model ----
(***************************************************************************)
(* A model of convertupload_headless.py: the kiosk session of one          *)
(* VideoConverterApp (UI thread, render worker, upload worker, delivery    *)
(* waiter), the secondary-monitor player processes and the start-up guard  *)
(* socket.                                                                 *)
(*                                                                         *)
(* Strings are sequences of one-character strings.  Durations are in       *)
(* tenths of a second.  Fractions (upload_frac) are in hundredths.         *)
(* An optional value is <<>> for None and <<v>> for the value v, except    *)
(* for fid and converted, which are strings with "None" for None.          *)
(* The Tk event loop is taken to be running: a UI callback is one atomic   *)
(* action, a worker thread advances one statement group at a time.         *)
(***************************************************************************)
EXTENDS Integers, Sequences, FiniteSets, TLC

\* ------------------------------------------------------------- bounds
\* Keys may be appended to the email entry while it is shorter than this.
MaxEmailLen == 2
\* The largest number of secondary monitors (len(monitors) - 1).
MaxSecondary == 1
\* The number of chunks next_chunk needs to send the file.
NumChunks == 2
\* The largest number of next_chunk calls that raise in one upload.
MaxChunkFailures == 1
\* The largest elapsed time (seconds) read by the upload worker.
MaxElapsed == 1
\* The number of program instances started on the machine.
NumInstances == 3

\* ------------------------------------------------- program constants
\* range(30) in headless_render
ConnectAttempts == 30
\* r"^\d{10}$" and len(cur) < 10
PhoneLen == 10
\* get_video_duration's fallback, 60.0 s
DefaultDuration == 600
\* trim_to_duration's tolerance, 0.1 s
TrimTolerance == 1

CARRIER_GATEWAYS == <<"@txt.att.net", "@vtext.com", "@tmomail.net", "@messaging.sprint.com">>

\* The numbers of secondary monitors get_monitors() may report.
SecondaryCounts == {0, MaxSecondary}
\* Durations (tenths of a second) the input clip may have.
InputDurations == {100}
\* Durations the rendered file may come out with, given the input's.
RenderedDurations(d) == {d - 20, d, d + 20}
\* The file ids the Drive API hands out.
FileIds == {"f1"}

None == "None"
INPUT_VIDEO == "test_vide.mp4"
ENHANCED == "test_vide_enhanced.mp4"

\* ------------------------------------------------------------ strings
Letters == {"a"}
Digits == {"1"}
Whitespace == {" "}
DomainKeys == {"gmail"}
EmailCharKeys == Letters \cup {"@"}
Chars(k) == IF k = "gmail" THEN <<"g", "m", "a", "i", "l">> ELSE <<k>>
DotCom == <<".", "c", "o", "m">>

RECURSIVE LStrip(_)
LStrip(s) == IF s # <<>> /\ Head(s) \in Whitespace THEN LStrip(Tail(s)) ELSE s

RECURSIVE RStrip(_)
RStrip(s) ==
    IF s # <<>> /\ s[Len(s)] \in Whitespace THEN RStrip(SubSeq(s, 1, Len(s) - 1)) ELSE s

\* str.strip()
Strip(s) == RStrip(LStrip(s))

\* cur[:-1]
DropLast(s) == IF s = <<>> THEN <<>> ELSE SubSeq(s, 1, Len(s) - 1)

NoAt(s, lo, hi) == \A k \in lo..hi : s[k] # "@"

\* re.match(r"[^@]+@[^@]+\.[^@]+", e): a match of a prefix of e.
is_valid_email(e) ==
    \E i \in 2..Len(e) : \E j \in (i + 2)..(Len(e) - 1) :
        /\ NoAt(e, 1, i - 1)
        /\ e[i] = "@"
        /\ NoAt(e, i + 1, j - 1)
        /\ e[j] = "."
        /\ e[j + 1] # "@"

\* re.match(r"^\d{10}$", p)
is_valid_phone(p) == Len(p) = PhoneLen /\ \A k \in 1..Len(p) : p[k] \in Digits

\* -------------------------------------------------------------- state
VARIABLES
    \* environment
    n_secondary,            \* len(monitors[1:])
    in_dur,                 \* true duration of INPUT_VIDEO
    out_dur,                \* duration of the rendered file on disk (0: no file)
    resolve_rendering,      \* the render application is rendering the job
    \* VideoConverterApp fields
    email_var, phone_var, conversion_done, rating, upload_frac, upload_rem,
    upload_done, upload_link, recipient_email, recipient_sms_numbers, converted,
    input_duration,
    \* widgets and Tk timers
    screen,                 \* the wizard screen built below the status label
    send_btn,               \* "none", "disabled" or "normal"
    status,                 \* text of the status label
    upload_label,           \* text of upload_label (<<>>: not created)
    progress_timer,         \* after(1000, _schedule_fake_progress) is pending
    upload_timer,           \* after(1000, _update_upload_status) is pending
    play_pending,           \* after(0, _play(out_path)) is pending
    player_media,           \* the file the primary player plays
    ui_pc,                  \* "idle", or the point a UI callback has reached
    \* render worker
    render_pc,
    connect_try,            \* passes of the connect loop made (0 outside the loop)
    \* player processes: procs[i] = [file, alive]; secondary_procs lists ids
    procs, secondary_procs,
    \* upload worker
    up_pc, fid, perm_set, upload_threads,
    attempt,                \* attempt of the chunk loop (0 outside the loop)
    chunks_sent,            \* chunks the resumable request has sent
    chunk_failures,         \* next_chunk calls that raised
    \* delivery waiter
    wait_pc, sms_i, outbox,
    \* program instances and the guard port
    inst,                   \* where each program instance is
    port_owner,             \* the instance bound to localhost:65432 (0: none)
    inst_players,           \* ffplay processes each instance has started
    inst_workers            \* render workers each instance has started

envVars == <<n_secondary, in_dur>>
fileVars == <<out_dur, resolve_rendering>>
emailVars == <<email_var, recipient_email>>
phoneVars == <<phone_var, recipient_sms_numbers>>
renderFlags == <<conversion_done, converted>>
uploadFields == <<upload_frac, upload_rem, upload_done, upload_link>>
wizardVars == <<screen, send_btn, upload_label, upload_timer, ui_pc>>
progressVars == <<status, progress_timer>>
playVars == <<play_pending, player_media>>
renderVars == <<render_pc, connect_try>>
procVars == <<procs, secondary_procs>>
upVars == <<up_pc, fid, attempt, chunks_sent, chunk_failures, perm_set, upload_threads>>
waitVars == <<wait_pc, sms_i, outbox>>
guardVars == <<inst, port_owner, inst_players, inst_workers>>

vars == <<envVars, fileVars, emailVars, phoneVars, renderFlags, uploadFields, wizardVars,
          progressVars, playVars, renderVars, procVars, upVars, waitVars,
          guardVars, rating, input_duration>>

Instances == 1..NumInstances
\* The instance whose session the model follows.
Self == 1

\* -------------------------------------------------- helpers of the code
\* Elapsed wall-clock seconds a timer callback may read.
ProgressElapsed == {0, 200}

\* get_video_duration(path): 60.0 when which('ffprobe') finds nothing.
get_video_duration(ffprobe, d) == IF ffprobe THEN d ELSE DefaultDuration

\* Mutant: the percentage without min(99, ...).
FakePctUncapped(elapsed, duration) == (elapsed * 10 * 100) \div duration

\* int(min(99, (time.time() - self.start_time) / self.input_duration * 100))
FakePct(elapsed, duration) ==
    LET p == (elapsed * 10 * 100) \div duration IN IF p < 99 THEN p ELSE 99

\* start_secondary_loops(path): one ffplay per monitor in monitors[1:],
\* appended to _secondary_procs.
NewProcs(n, path) == [i \in 1..n |-> [file |-> path, alive |-> TRUE]]

\* f'https://drive.google.com/file/d/{fid}/view?usp=sharing'
Link(f) == <<"https://drive.google.com/file/d/", f, "/view?usp=sharing">>

\* f'...{self.upload_link}': None is formatted as the text 'None'.
FormatLink(l) == IF l = <<>> THEN <<"None">> ELSE l

\* -------------------------------------------------------------- Init
\* The fields, widgets and threads of a session as __init__ leaves them.
InitSession ==
    /\ n_secondary \in SecondaryCounts
    /\ in_dur \in InputDurations
    /\ out_dur = 0
    /\ resolve_rendering = FALSE
    /\ email_var = <<>>
    /\ phone_var = <<>>
    /\ conversion_done = FALSE
    /\ rating = 0
    /\ upload_frac = 0
    /\ upload_rem = 0
    /\ upload_done = FALSE
    /\ upload_link = <<>>
    /\ recipient_email = <<>>
    /\ recipient_sms_numbers = <<>>
    /\ converted = None
    /\ input_duration \in {get_video_duration(which_ffprobe, in_dur) : which_ffprobe \in BOOLEAN}
    /\ screen = "email"
    /\ send_btn = "none"
    /\ status = <<"Enhancing", 0>>
    /\ upload_label = <<>>
    /\ progress_timer = TRUE
    /\ upload_timer = FALSE
    /\ play_pending = FALSE
    /\ player_media = INPUT_VIDEO
    /\ ui_pc = "idle"
    /\ render_pc = "launch"
    /\ connect_try = 0
    /\ procs = NewProcs(n_secondary, INPUT_VIDEO)
    /\ secondary_procs = [i \in 1..n_secondary |-> i]
    /\ up_pc = "idle"
    /\ fid = None
    /\ attempt = 0
    /\ chunks_sent = 0
    /\ chunk_failures = 0
    /\ perm_set = FALSE
    /\ upload_threads = 0
    /\ wait_pc = "idle"
    /\ sms_i = 0
    /\ outbox = <<>>

\* The state after the module has loaded (guard bound, raw clip looping on
\* the secondary monitors) and VideoConverterApp.__init__ has returned.
Init ==
    /\ InitSession
    /\ inst = [i \in Instances |-> IF i = Self THEN "ui" ELSE "off"]
    /\ port_owner = Self
    /\ inst_players = [i \in Instances |-> IF i = Self THEN n_secondary ELSE 0]
    /\ inst_workers = [i \in Instances |-> IF i = Self THEN 1 ELSE 0]

\* ================================================================ UI
\* All UI callbacks run on the Tk thread, one at a time.
Range(s) == {s[k] : k \in 1..Len(s)}

EmailKeys == EmailCharKeys \cup DomainKeys \cup {"Backspace"}

\* _email_key(k): the new content of the email entry.
email_key(cur, k) ==
    IF k = "Backspace" THEN DropLast(cur)
    ELSE IF k \in DomainKeys /\ "@" \notin Range(cur)
         THEN cur \o <<"@">> \o Chars(k) \o DotCom
         ELSE cur \o Chars(k)

\* A key of the on-screen email keyboard is released.
EmailKey(k) ==
    /\ ui_pc = "idle"
    /\ screen = "email"
    /\ k # "Backspace" => Len(email_var) < MaxEmailLen
    /\ email_var' = email_key(email_var, k)
    /\ UNCHANGED <<envVars, fileVars, recipient_email, phoneVars, renderFlags,
                   uploadFields, wizardVars, progressVars, playVars, renderVars,
                   procVars, upVars, waitVars, guardVars, rating, input_duration>>

\* _show_rating_ui / _show_phone_ui: _clear_below_status destroys the widgets
\* of the previous screen; the new Send button is created disabled.
ShowScreen(name) ==
    /\ screen' = name
    /\ send_btn' = IF name = "rating" THEN "disabled" ELSE "none"

\* Mutant: _email_next without the is_valid_email test.
EmailNextUnchecked ==
    /\ ui_pc = "idle"
    /\ screen = "email"
    /\ recipient_email' = Strip(email_var)
    /\ ShowScreen("phone")
    /\ UNCHANGED <<envVars, fileVars, email_var, phoneVars, renderFlags, uploadFields,
                   upload_label, upload_timer, ui_pc, progressVars, playVars,
                   renderVars, procVars, upVars, waitVars, guardVars, rating,
                   input_duration>>

\* _email_next: Next on the email screen.
EmailNext ==
    /\ ui_pc = "idle"
    /\ screen = "email"
    /\ LET e == Strip(email_var) IN
         IF is_valid_email(e)
         THEN /\ recipient_email' = e
              /\ ShowScreen("phone")
         ELSE UNCHANGED <<recipient_email, screen, send_btn>>
    /\ UNCHANGED <<envVars, fileVars, email_var, phoneVars, renderFlags, uploadFields,
                   upload_label, upload_timer, ui_pc, progressVars, playVars,
                   renderVars, procVars, upVars, waitVars, guardVars, rating,
                   input_duration>>

PhoneKeys == Digits \cup {"Back", "Del"}

\* _phone_key(k): the new content of the phone entry.
phone_key(cur, k) ==
    IF k = "Del" THEN <<>>
    ELSE IF k = "Back" THEN DropLast(cur)
    ELSE IF Len(cur) < PhoneLen /\ k \in Digits THEN Append(cur, k)
    ELSE cur

\* A key of the on-screen phone pad is released.
PhoneKey(k) ==
    /\ ui_pc = "idle"
    /\ screen = "phone"
    /\ phone_var' = phone_key(phone_var, k)
    /\ UNCHANGED <<envVars, fileVars, emailVars, recipient_sms_numbers, renderFlags,
                   uploadFields, wizardVars, progressVars, playVars, renderVars,
                   procVars, upVars, waitVars, guardVars, rating, input_duration>>

\* [f'{p}{gw}' for gw in CARRIER_GATEWAYS.values()]
SmsNumbers(p) == [g \in 1..Len(CARRIER_GATEWAYS) |-> Append(p, CARRIER_GATEWAYS[g])]

\* _phone_next: Next on the phone screen.
PhoneNext ==
    /\ ui_pc = "idle"
    /\ screen = "phone"
    /\ LET p == Strip(phone_var) IN
         IF is_valid_phone(p)
         THEN /\ recipient_sms_numbers' = SmsNumbers(p)
              /\ ShowScreen("rating")
         ELSE UNCHANGED <<recipient_sms_numbers, screen, send_btn>>
    /\ UNCHANGED <<envVars, fileVars, emailVars, phone_var, renderFlags, uploadFields,
                   upload_label, upload_timer, ui_pc, progressVars, playVars,
                   renderVars, procVars, upVars, waitVars, guardVars, rating,
                   input_duration>>

\* The stars the user presses, among the five of "for i in range(5)".
StarsPressed == {1, 5}

\* _set_rating(n): a star is released.
SetRating(n) ==
    /\ ui_pc = "idle"
    /\ screen = "rating"
    /\ rating' = n
    /\ send_btn' = IF conversion_done /\ n > 0 THEN "normal" ELSE send_btn
    /\ UNCHANGED <<envVars, fileVars, emailVars, phoneVars, renderFlags, uploadFields,
                   screen, upload_label, upload_timer, ui_pc, progressVars, playVars,
                   renderVars, procVars, upVars, waitVars, guardVars, input_duration>>

\* Mutant: _on_send without its guard.
OnSendAllowedAlways == TRUE

\* Mutant: _on_send testing the rating alone.
OnSendAllowedRatingOnly == rating # 0

\* The guard of _on_send: if not (self.conversion_done and self.rating): return
OnSendAllowed == conversion_done /\ rating # 0

\* _on_send, up to threading.Thread(target=self._start_upload).start().
\* DarkButton._release calls the command whatever the state of the button,
\* so the press is possible whenever the Send button exists.
OnSend ==
    /\ ui_pc = "idle"
    /\ screen = "rating"
    /\ send_btn \in {"disabled", "normal"}
    /\ IF OnSendAllowed
       THEN /\ ShowScreen("upload")
            /\ upload_label' = <<"Starting upload">>
            /\ up_pc' = "build"
            /\ upload_threads' = upload_threads + 1
            /\ ui_pc' = "on_send"
       ELSE UNCHANGED <<screen, send_btn, upload_label, up_pc, upload_threads, ui_pc>>
    /\ UNCHANGED <<envVars, fileVars, emailVars, phoneVars, renderFlags, uploadFields,
                   upload_timer, progressVars, playVars, renderVars, procVars, fid,
                   attempt, chunks_sent, chunk_failures, perm_set, waitVars, guardVars,
                   rating, input_duration>>

\* _update_upload_status: the label and the timer it leaves.
UpdateUploadStatus ==
    IF ~upload_done
    THEN /\ upload_label' = <<"Uploading", upload_frac, upload_rem>>
         /\ upload_timer' = TRUE
    ELSE /\ upload_label' = upload_label
         /\ upload_timer' = FALSE

\* _on_send, the rest: self._update_upload_status() and the start of the
\* thread that runs _wait_until_done(final_delivery).
OnSendRest ==
    /\ ui_pc = "on_send"
    /\ UpdateUploadStatus
    /\ wait_pc' = "poll"
    /\ ui_pc' = "idle"
    /\ UNCHANGED <<envVars, fileVars, emailVars, phoneVars, renderFlags, uploadFields,
                   screen, send_btn, progressVars, playVars, renderVars, procVars,
                   upVars, sms_i, outbox, guardVars, rating, input_duration>>

\* The after(1000) callback _update_upload_status.
UploadTick ==
    /\ ui_pc = "idle"
    /\ upload_timer
    /\ UpdateUploadStatus
    /\ UNCHANGED <<envVars, fileVars, emailVars, phoneVars, renderFlags, uploadFields,
                   screen, send_btn, ui_pc, progressVars, playVars, renderVars,
                   procVars, upVars, waitVars, guardVars, rating, input_duration>>

\* Mutant: the timer itself declares the conversion done at 99%.
ProgressTickWritesDone ==
    /\ ui_pc = "idle"
    /\ progress_timer
    /\ IF ~conversion_done
       THEN \E elapsed \in ProgressElapsed :
              /\ status' = <<"Enhancing", FakePct(elapsed, input_duration)>>
              /\ progress_timer' = TRUE
              /\ conversion_done' = (FakePct(elapsed, input_duration) = 99)
       ELSE /\ status' = <<"complete">>
            /\ progress_timer' = FALSE
            /\ conversion_done' = conversion_done
    /\ UNCHANGED <<envVars, fileVars, emailVars, phoneVars, converted, uploadFields,
                   wizardVars, playVars, renderVars, procVars, upVars, waitVars,
                   guardVars, rating, input_duration>>

\* The after(1000) callback _schedule_fake_progress.
ProgressTick ==
    /\ ui_pc = "idle"
    /\ progress_timer
    /\ IF ~conversion_done
       THEN \E elapsed \in ProgressElapsed :
              /\ status' = <<"Enhancing", FakePct(elapsed, input_duration)>>
              /\ progress_timer' = TRUE
       ELSE /\ status' = <<"complete">>
            /\ progress_timer' = FALSE
    /\ UNCHANGED <<envVars, fileVars, emailVars, phoneVars, renderFlags, uploadFields,
                   wizardVars, playVars, renderVars, procVars, upVars, waitVars,
                   guardVars, rating, input_duration>>

\* The after(0) callback lambda: self._play(out_path).
PlayEnhanced ==
    /\ ui_pc = "idle"
    /\ play_pending
    /\ play_pending' = FALSE
    /\ player_media' = ENHANCED
    /\ UNCHANGED <<envVars, fileVars, emailVars, phoneVars, renderFlags, uploadFields,
                   wizardVars, progressVars, renderVars, procVars, upVars, waitVars,
                   guardVars, rating, input_duration>>

UINext ==
    \/ \E k \in EmailKeys : EmailKey(k)
    \/ EmailNext
    \/ \E k \in PhoneKeys : PhoneKey(k)
    \/ PhoneNext
    \/ \E n \in StarsPressed : SetRating(n)
    \/ OnSend
    \/ OnSendRest
    \/ UploadTick
    \/ ProgressTick
    \/ PlayEnhanced

\* ===================================================== render worker
\* The thread started by __init__ with target _run_conversion.

\* _run_conversion: launch_resolve_headless() inside the first try; an
\* exception (or locate_paths' SystemExit) ends the thread.
RenderLaunch ==
    /\ render_pc = "launch"
    /\ \E ok \in BOOLEAN : render_pc' = IF ok THEN "bootstrap" ELSE "failed"
    /\ UNCHANGED <<envVars, fileVars, emailVars, phoneVars, renderFlags, uploadFields,
                   wizardVars, progressVars, playVars, connect_try, procVars, upVars,
                   waitVars, guardVars, rating, input_duration>>

\* headless_render: locate_paths, launch_resolve_headless, bootstrap_api.
RenderBootstrap ==
    /\ render_pc = "bootstrap"
    /\ \E ok \in BOOLEAN : render_pc' = IF ok THEN "connect" ELSE "failed"
    /\ connect_try' = 0
    /\ UNCHANGED <<envVars, fileVars, emailVars, phoneVars, renderFlags, uploadFields,
                   wizardVars, progressVars, playVars, procVars, upVars, waitVars,
                   guardVars, rating, input_duration>>

\* headless_render: one pass of "for _ in range(30)": scriptapp('Resolve')
\* gives a connection (break) or raises / returns nothing (sleep 1 s).
RenderConnect ==
    /\ render_pc = "connect"
    /\ connect_try < ConnectAttempts
    /\ \E connected \in BOOLEAN :
         IF connected
         THEN render_pc' = "setup" /\ connect_try' = 0
         ELSE render_pc' = "connect" /\ connect_try' = connect_try + 1
    /\ UNCHANGED <<envVars, fileVars, emailVars, phoneVars, renderFlags, uploadFields,
                   wizardVars, progressVars, playVars, procVars, upVars, waitVars,
                   guardVars, rating, input_duration>>

\* Mutant: the connection step gives up after the first failed attempt.
RenderConnectGiveUpEarly ==
    /\ render_pc = "connect"
    /\ connect_try >= 1
    /\ render_pc' = "failed"
    /\ connect_try' = 0
    /\ UNCHANGED <<envVars, fileVars, emailVars, phoneVars, renderFlags, uploadFields,
                   wizardVars, progressVars, playVars, procVars, upVars, waitVars,
                   guardVars, rating, input_duration>>

\* headless_render: the loop ran out: raise RuntimeError('Could not connect').
RenderConnectGiveUp ==
    /\ render_pc = "connect"
    /\ connect_try = ConnectAttempts
    /\ render_pc' = "failed"
    /\ connect_try' = 0
    /\ UNCHANGED <<envVars, fileVars, emailVars, phoneVars, renderFlags, uploadFields,
                   wizardVars, progressVars, playVars, procVars, upVars, waitVars,
                   guardVars, rating, input_duration>>

\* headless_render: load the project, import the clip, create the timeline,
\* queue and start the render job; any step failing raises RuntimeError.
RenderSetup ==
    /\ render_pc = "setup"
    /\ \E ok \in BOOLEAN :
         IF ok
         THEN render_pc' = "poll" /\ resolve_rendering' = TRUE
         ELSE render_pc' = "failed" /\ resolve_rendering' = resolve_rendering
    /\ UNCHANGED <<envVars, out_dur, emailVars, phoneVars, renderFlags, uploadFields,
                   wizardVars, progressVars, playVars, connect_try, procVars, upVars,
                   waitVars, guardVars, rating, input_duration>>

\* The render application finishes the job and the file is complete.
ResolveFinishes ==
    /\ resolve_rendering
    /\ resolve_rendering' = FALSE
    /\ out_dur' \in RenderedDurations(in_dur)
    /\ UNCHANGED <<envVars, emailVars, phoneVars, renderFlags, uploadFields,
                   wizardVars, progressVars, playVars, renderVars, procVars, upVars,
                   waitVars, guardVars, rating, input_duration>>

\* What the polling loop takes IsRenderingInProgress() to say: the
\* application's answer, or False when the call raises.
PollRunning(raised) == IF raised THEN FALSE ELSE resolve_rendering

\* headless_render: one pass of the polling loop "while True".
RenderPoll ==
    /\ render_pc = "poll"
    /\ \E raised \in BOOLEAN :
         render_pc' = IF PollRunning(raised) THEN "poll" ELSE "quit"
    /\ UNCHANGED <<envVars, fileVars, emailVars, phoneVars, renderFlags, uploadFields,
                   wizardVars, progressVars, playVars, connect_try, procVars, upVars,
                   waitVars, guardVars, rating, input_duration>>

\* headless_render: resolve.Quit() and return of the output path.  A job
\* still rendering is abandoned with the file as it is.
RenderQuit ==
    /\ render_pc = "quit"
    /\ render_pc' = "trim"
    /\ resolve_rendering' = FALSE
    /\ UNCHANGED <<envVars, out_dur, emailVars, phoneVars, renderFlags, uploadFields,
                   wizardVars, progressVars, playVars, connect_try, procVars, upVars,
                   waitVars, guardVars, rating, input_duration>>

\* trim_to_duration(path, duration): the durations the file may have after
\* the call, given its duration cur (0: ffprobe cannot read it).
trim_to_duration(cur, duration, ffprobe, ffmpeg) ==
    IF ~(ffprobe /\ ffmpeg) THEN {cur}
    ELSE IF cur = 0 THEN {cur}
    ELSE IF cur > duration + TrimTolerance THEN {duration, cur}
    ELSE {cur}

\* _run_conversion: trim_to_duration(out_path, self.input_duration)
RenderTrim ==
    /\ render_pc = "trim"
    /\ \E which_ffprobe \in BOOLEAN, which_ffmpeg \in BOOLEAN :
         out_dur' \in trim_to_duration(out_dur, input_duration, which_ffprobe, which_ffmpeg)
    /\ render_pc' = "set_converted"
    /\ UNCHANGED <<envVars, resolve_rendering, emailVars, phoneVars, renderFlags,
                   uploadFields, wizardVars, progressVars, playVars, connect_try,
                   procVars, upVars, waitVars, guardVars, rating, input_duration>>

\* Mutant: conversion_done is set where converted should be.
RenderSetConvertedLate ==
    /\ render_pc = "set_converted"
    /\ conversion_done' = TRUE
    /\ render_pc' = "set_done"
    /\ UNCHANGED <<envVars, fileVars, emailVars, phoneVars, converted, uploadFields,
                   wizardVars, progressVars, playVars, connect_try, procVars, upVars,
                   waitVars, guardVars, rating, input_duration>>

\* _run_conversion: self.converted = out_path
RenderSetConverted ==
    /\ render_pc = "set_converted"
    /\ converted' = ENHANCED
    /\ render_pc' = "set_done"
    /\ UNCHANGED <<envVars, fileVars, emailVars, phoneVars, conversion_done,
                   uploadFields, wizardVars, progressVars, playVars, connect_try,
                   procVars, upVars, waitVars, guardVars, rating, input_duration>>

\* _run_conversion: self.conversion_done = True
RenderSetDone ==
    /\ render_pc = "set_done"
    /\ conversion_done' = TRUE
    /\ render_pc' = "terminate"
    /\ UNCHANGED <<envVars, fileVars, emailVars, phoneVars, converted, uploadFields,
                   wizardVars, progressVars, playVars, connect_try, procVars, upVars,
                   waitVars, guardVars, rating, input_duration>>

\* _run_conversion: for p in _secondary_procs: p.terminate()
RenderTerminate ==
    /\ render_pc = "terminate"
    /\ procs' = [i \in 1..Len(procs) |->
                    IF i \in Range(secondary_procs)
                    THEN [procs[i] EXCEPT !.alive = FALSE] ELSE procs[i]]
    /\ render_pc' = "clear"
    /\ UNCHANGED <<envVars, fileVars, emailVars, phoneVars, renderFlags, uploadFields,
                   wizardVars, progressVars, playVars, connect_try, secondary_procs,
                   upVars, waitVars, guardVars, rating, input_duration>>

\* Mutant: the list of secondary players is not cleared.
RenderClearSkipped ==
    /\ render_pc = "clear"
    /\ secondary_procs' = secondary_procs
    /\ render_pc' = "start_loops"
    /\ UNCHANGED <<envVars, fileVars, emailVars, phoneVars, renderFlags, uploadFields,
                   wizardVars, progressVars, playVars, connect_try, procs, upVars,
                   waitVars, guardVars, rating, input_duration>>

\* _run_conversion: _secondary_procs.clear()
RenderClear ==
    /\ render_pc = "clear"
    /\ secondary_procs' = <<>>
    /\ render_pc' = "start_loops"
    /\ UNCHANGED <<envVars, fileVars, emailVars, phoneVars, renderFlags, uploadFields,
                   wizardVars, progressVars, playVars, connect_try, procs, upVars,
                   waitVars, guardVars, rating, input_duration>>

\* start_secondary_loops(path): a new ffplay per secondary monitor.
start_secondary_loops(path) ==
    /\ procs' = procs \o NewProcs(n_secondary, path)
    /\ secondary_procs' = secondary_procs \o [i \in 1..n_secondary |-> Len(procs) + i]

\* _run_conversion: start_secondary_loops(out_path)
RenderStartLoops ==
    /\ render_pc = "start_loops"
    /\ start_secondary_loops(ENHANCED)
    /\ render_pc' = "after"
    /\ UNCHANGED <<envVars, fileVars, emailVars, phoneVars, renderFlags, uploadFields,
                   wizardVars, progressVars, playVars, connect_try, upVars, waitVars,
                   guardVars, rating, input_duration>>

\* _run_conversion: self.root.after(0, lambda: self._play(out_path)); the Tk
\* call is handed to the UI thread, which serves it between callbacks.
RenderAfter ==
    /\ render_pc = "after"
    /\ ui_pc = "idle"
    /\ play_pending' = TRUE
    /\ render_pc' = "done"
    /\ UNCHANGED <<envVars, fileVars, emailVars, phoneVars, renderFlags, uploadFields,
                   wizardVars, progressVars, player_media, connect_try, procVars,
                   upVars, waitVars, guardVars, rating, input_duration>>

RenderNext ==
    \/ RenderLaunch
    \/ RenderBootstrap
    \/ RenderConnect
    \/ RenderConnectGiveUp
    \/ RenderSetup
    \/ ResolveFinishes
    \/ RenderPoll
    \/ RenderQuit
    \/ RenderTrim
    \/ RenderSetConverted
    \/ RenderSetDone
    \/ RenderTerminate
    \/ RenderClear
    \/ RenderStartLoops
    \/ RenderAfter

\* ===================================================== upload worker
\* The thread started by _on_send with target _start_upload.

\* _start_upload: build('drive', ...), MediaFileUpload, files().create: an
\* exception here (or sys.exit in _get_credentials) ends the thread.
UploadBuild ==
    /\ up_pc = "build"
    /\ \E ok \in BOOLEAN : up_pc' = IF ok THEN "next_chunk" ELSE "dead"
    /\ fid' = None
    /\ attempt' = 0
    /\ UNCHANGED <<envVars, fileVars, emailVars, phoneVars, renderFlags, uploadFields,
                   wizardVars, progressVars, playVars, renderVars, procVars,
                   chunks_sent, chunk_failures, perm_set, upload_threads, waitVars,
                   guardVars, rating, input_duration>>

\* status.progress() after k chunks, in hundredths.
Progress(k) == (k * 100) \div NumChunks

\* int((time.time() - start) * (1 - frac) / frac) if frac > 0 else 0
Remaining(elapsed, frac) == IF frac > 0 THEN (elapsed * (100 - frac)) \div frac ELSE 0

\* Mutant: the handler leaves the chunk loop instead of retrying.
ChunkExceptionBreaks ==
    /\ chunk_failures' = chunk_failures + 1
    /\ up_pc' = "perm"
    /\ attempt' = attempt + 1
    /\ UNCHANGED <<fid, chunks_sent, uploadFields>>

\* _start_upload: the handler "except Exception" of the chunk loop:
\* print, time.sleep(1), continue.
ChunkException ==
    /\ chunk_failures' = chunk_failures + 1
    /\ up_pc' = "sleep"
    /\ attempt' = attempt + 1
    /\ UNCHANGED <<fid, chunks_sent, uploadFields>>

\* _start_upload: next_chunk returned (status, None): progress is stored.
ChunkProgress ==
    /\ chunks_sent' = chunks_sent + 1
    /\ upload_frac' = Progress(chunks_sent + 1)
    /\ \E elapsed \in 0..MaxElapsed :
         upload_rem' = Remaining(elapsed, Progress(chunks_sent + 1))
    /\ up_pc' = "next_chunk"
    /\ attempt' = attempt + 1
    /\ UNCHANGED <<fid, chunk_failures, upload_done, upload_link>>

\* Mutant: the final response does not set upload_frac and upload_rem.
ChunkFinalKeepsProgress(id) ==
    /\ fid' = id
    /\ up_pc' = "perm"
    /\ chunks_sent' = 0
    /\ chunk_failures' = 0
    /\ attempt' = 0
    /\ UNCHANGED <<upload_frac, upload_rem, upload_done, upload_link>>

\* _start_upload: next_chunk returned (None, resp): fid = resp.get('id'), and
\* the loop "while fid is None" is left; its counters are dead from here on.
ChunkFinal(id) ==
    /\ fid' = id
    /\ upload_frac' = 100
    /\ upload_rem' = 0
    /\ up_pc' = "perm"
    /\ chunks_sent' = 0
    /\ chunk_failures' = 0
    /\ attempt' = 0
    /\ UNCHANGED <<upload_done, upload_link>>

\* _start_upload: one pass of "while fid is None": req.next_chunk().
UploadNextChunk ==
    /\ up_pc = "next_chunk"
    /\ \/ chunk_failures < MaxChunkFailures /\ ChunkException
       \/ chunks_sent + 1 < NumChunks /\ ChunkProgress
       \/ chunks_sent + 1 = NumChunks /\ \E id \in FileIds : ChunkFinal(id)
    /\ UNCHANGED <<envVars, fileVars, emailVars, phoneVars, renderFlags, wizardVars,
                   progressVars, playVars, renderVars, procVars, perm_set,
                   upload_threads, waitVars, guardVars, rating, input_duration>>

\* _start_upload: the sleep is over; the loop condition is tested again.
UploadSleep ==
    /\ up_pc = "sleep"
    /\ up_pc' = IF fid = None THEN "next_chunk" ELSE "perm"
    /\ UNCHANGED <<envVars, fileVars, emailVars, phoneVars, renderFlags, uploadFields,
                   wizardVars, progressVars, playVars, renderVars, procVars, fid,
                   attempt, chunks_sent, chunk_failures, perm_set, upload_threads,
                   waitVars, guardVars, rating, input_duration>>

\* _start_upload: permissions().create(...).execute() inside try/except.
UploadPermissions ==
    /\ up_pc = "perm"
    /\ perm_set' \in BOOLEAN
    /\ up_pc' = "link"
    /\ UNCHANGED <<envVars, fileVars, emailVars, phoneVars, renderFlags, uploadFields,
                   wizardVars, progressVars, playVars, renderVars, procVars, fid,
                   attempt, chunks_sent, chunk_failures, upload_threads, waitVars,
                   guardVars, rating, input_duration>>

\* _start_upload: self.upload_link = f'https://drive.google.com/...'
UploadSetLink ==
    /\ up_pc = "link"
    /\ upload_link' = Link(fid)
    /\ up_pc' = "set_done"
    /\ UNCHANGED <<envVars, fileVars, emailVars, phoneVars, renderFlags, upload_frac,
                   upload_rem, upload_done, wizardVars, progressVars, playVars,
                   renderVars, procVars, fid, attempt, chunks_sent, chunk_failures,
                   perm_set, upload_threads, waitVars, guardVars, rating,
                   input_duration>>

\* Mutant: the upload worker ends without setting upload_done.
UploadSetDoneForgotten ==
    /\ up_pc = "set_done"
    /\ upload_done' = upload_done
    /\ up_pc' = "done"
    /\ UNCHANGED <<envVars, fileVars, emailVars, phoneVars, renderFlags, upload_frac,
                   upload_rem, upload_link, wizardVars, progressVars, playVars,
                   renderVars, procVars, fid, attempt, chunks_sent, chunk_failures,
                   perm_set, upload_threads, waitVars, guardVars, rating,
                   input_duration>>

\* _start_upload: self.upload_done = True
UploadSetDone ==
    /\ up_pc = "set_done"
    /\ upload_done' = TRUE
    /\ up_pc' = "done"
    /\ UNCHANGED <<envVars, fileVars, emailVars, phoneVars, renderFlags, upload_frac,
                   upload_rem, upload_link, wizardVars, progressVars, playVars,
                   renderVars, procVars, fid, attempt, chunks_sent, chunk_failures,
                   perm_set, upload_threads, waitVars, guardVars, rating,
                   input_duration>>

UploadNext ==
    \/ UploadBuild
    \/ UploadNextChunk
    \/ UploadSleep
    \/ UploadPermissions
    \/ UploadSetLink
    \/ UploadSetDone

\* =================================================== delivery waiter
\* The thread started by _on_send with target _wait_until_done(final_delivery).

\* A message handed to Gmail by send_email(sender, to, subject, body).
Message(to, text, link) == [to |-> to, body |-> <<text>> \o FormatLink(link)]

\* _wait_until_done: "while not self.upload_done: time.sleep(1)" is left.
WaitPoll ==
    /\ wait_pc = "poll"
    /\ upload_done
    /\ wait_pc' = "email"
    /\ UNCHANGED <<envVars, fileVars, emailVars, phoneVars, renderFlags, uploadFields,
                   wizardVars, progressVars, playVars, renderVars, procVars, upVars,
                   sms_i, outbox, guardVars, rating, input_duration>>

\* final_delivery: send_email(GMAIL_ADDRESS, self.recipient_email, ...); an
\* exception ends the thread.
WaitSendEmail ==
    /\ wait_pc = "email"
    /\ \E ok \in BOOLEAN :
         IF ok
         THEN /\ outbox' = Append(outbox, Message(recipient_email, "Here's your clip:", upload_link))
              /\ wait_pc' = "sms"
         ELSE /\ outbox' = outbox
              /\ wait_pc' = "dead"
    /\ sms_i' = 0
    /\ UNCHANGED <<envVars, fileVars, emailVars, phoneVars, renderFlags, uploadFields,
                   wizardVars, progressVars, playVars, renderVars, procVars, upVars,
                   guardVars, rating, input_duration>>

\* final_delivery: one pass of "for to in self.recipient_sms_numbers".
WaitSendSms ==
    /\ wait_pc = "sms"
    /\ sms_i < Len(recipient_sms_numbers)
    /\ \E ok \in BOOLEAN :
         IF ok
         THEN /\ outbox' = Append(outbox, Message(recipient_sms_numbers[sms_i + 1],
                                                  "Your video link: ", upload_link))
              /\ sms_i' = sms_i + 1
              /\ wait_pc' = "sms"
         ELSE /\ UNCHANGED <<outbox, sms_i>>
              /\ wait_pc' = "dead"
    /\ UNCHANGED <<envVars, fileVars, emailVars, phoneVars, renderFlags, uploadFields,
                   wizardVars, progressVars, playVars, renderVars, procVars, upVars,
                   guardVars, rating, input_duration>>

\* final_delivery: self.upload_label.config(text='Sent!  Check email & SMS.');
\* the Tk call is handed to the UI thread, which serves it between callbacks.
WaitShowSent ==
    /\ wait_pc = "sms"
    /\ sms_i = Len(recipient_sms_numbers)
    /\ ui_pc = "idle"
    /\ upload_label' = <<"Sent">>
    /\ wait_pc' = "done"
    /\ UNCHANGED <<envVars, fileVars, emailVars, phoneVars, renderFlags, uploadFields,
                   screen, send_btn, upload_timer, ui_pc, progressVars, playVars,
                   renderVars, procVars, upVars, sms_i, outbox, guardVars, rating,
                   input_duration>>

WaitNext ==
    \/ WaitPoll
    \/ WaitSendEmail
    \/ WaitSendSms
    \/ WaitShowSent

\* ======================================================= guard socket
\* Module load of each instance started on the machine: the guard, then
\* start_secondary_loops(INPUT_VIDEO), then VideoConverterApp(root).

\* The operating system starts the instance.
InstLaunch(i) ==
    /\ inst[i] = "off"
    /\ inst' = [inst EXCEPT ![i] = "start"]
    /\ UNCHANGED <<envVars, fileVars, emailVars, phoneVars, renderFlags, uploadFields,
                   wizardVars, progressVars, playVars, renderVars, procVars, upVars,
                   waitVars, port_owner, inst_players, inst_workers, rating,
                   input_duration>>

\* Mutant: the bind succeeds although the port is taken.
BindNeverFails(i) == FALSE

\* _guard_sock.bind(('localhost', 65432)): OSError when the port is taken.
BindFails(i) == port_owner # 0

\* The guard: bind, or sys.exit('Already running.') on OSError.
InstGuard(i) ==
    /\ inst[i] = "start"
    /\ IF BindFails(i)
       THEN /\ inst' = [inst EXCEPT ![i] = "refused"]
            /\ port_owner' = port_owner
       ELSE /\ inst' = [inst EXCEPT ![i] = "bound"]
            /\ port_owner' = i
    /\ UNCHANGED <<envVars, fileVars, emailVars, phoneVars, renderFlags, uploadFields,
                   wizardVars, progressVars, playVars, renderVars, procVars, upVars,
                   waitVars, inst_players, inst_workers, rating, input_duration>>

\* start_secondary_loops(INPUT_VIDEO) at module load.
InstStartLoops(i) ==
    /\ inst[i] = "bound"
    /\ inst' = [inst EXCEPT ![i] = "players"]
    /\ inst_players' = [inst_players EXCEPT ![i] = n_secondary]
    /\ UNCHANGED <<envVars, fileVars, emailVars, phoneVars, renderFlags, uploadFields,
                   wizardVars, progressVars, playVars, renderVars, procVars, upVars,
                   waitVars, port_owner, inst_workers, rating, input_duration>>

\* VideoConverterApp.__init__: the UI is built and the render worker started.
InstConstruct(i) ==
    /\ inst[i] = "players"
    /\ inst' = [inst EXCEPT ![i] = "ui"]
    /\ inst_workers' = [inst_workers EXCEPT ![i] = 1]
    /\ UNCHANGED <<envVars, fileVars, emailVars, phoneVars, renderFlags, uploadFields,
                   wizardVars, progressVars, playVars, renderVars, procVars, upVars,
                   waitVars, port_owner, inst_players, rating, input_duration>>

\* No instance has been started yet.
GuardInit ==
    /\ InitSession
    /\ inst = [i \in Instances |-> "off"]
    /\ port_owner = 0
    /\ inst_players = [i \in Instances |-> 0]
    /\ inst_workers = [i \in Instances |-> 0]

GuardNext ==
    \/ \E i \in Instances : InstLaunch(i)
    \/ \E i \in Instances : InstGuard(i)
    \/ \E i \in Instances : InstStartLoops(i)
    \/ \E i \in Instances : InstConstruct(i)

GuardSpec == GuardInit /\ [][GuardNext]_vars

\* ============================================================== Spec
Next ==
    \/ UINext
    \/ RenderNext
    \/ UploadNext
    \/ WaitNext

Spec == Init /\ [][Next]_vars

\* The operating system schedules the upload worker and the delivery waiter
\* whenever they can run, and the Tk event loop lets a running callback finish.
Fairness ==
    /\ WF_vars(OnSendRest)
    /\ WF_vars(UploadNext)
    /\ WF_vars(WaitNext)

\* A session on a machine with ffprobe installed and one monitor.
LiveInit == Init /\ n_secondary = 0 /\ input_duration = in_dur

LiveSpec == LiveInit /\ [][Next]_vars /\ Fairness

\* ============================================================ claims
RenderTail == {"terminate", "clear", "start_loops", "after", "done"}
RenderRunning == render_pc \notin {"done", "failed"}
UploadRunning == up_pc \notin {"idle", "done", "dead"}

\* C1: the upload worker is started only by a step of _on_send taken while
\* conversion_done is true and rating is nonzero, whatever the Send button
\* displays when it is pressed.
C1_UploadNeedsRenderAndRating ==
    [][upload_threads' # upload_threads => (conversion_done /\ rating # 0)]_vars

\* C1 witness: the upload worker has been started.
C1_Witness == upload_threads = 1 /\ up_pc # "idle" /\ conversion_done /\ rating # 0

ScreenRank(sc) ==
    CASE sc = "email" -> 1
      [] sc = "phone" -> 2
      [] sc = "rating" -> 3
      [] sc = "upload" -> 4

\* C2: every change of screen goes to the next screen of
\* email -> phone -> rating -> upload, and the phone screen is entered only
\* with a recipient_email that passes is_valid_email.
C2_WizardOrder ==
    [][/\ screen' # screen => ScreenRank(screen') = ScreenRank(screen) + 1
       /\ screen' # "email" => is_valid_email(recipient_email')]_vars

\* C2 witness: the last screen has been reached.
C2_Witness == screen = "upload" /\ is_valid_email(recipient_email)

\* C3: on the phone screen with an empty phone field, pressing Next can lead
\* to the rating screen.
C3_PhoneOptional ==
    (screen = "phone" /\ ui_pc = "idle" /\ Strip(phone_var) = <<>>)
        => ENABLED (PhoneNext /\ screen' = "rating")

\* C4 as stated: one render worker, at most one upload worker, and the two
\* never run at the same time.
C4_WorkersNeverOverlap ==
    /\ inst_workers[Self] = 1
    /\ upload_threads <= 1
    /\ ~(RenderRunning /\ UploadRunning)

\* C4 amended: one render worker, at most one upload worker, and the upload
\* worker is started only after the render worker has set conversion_done;
\* the render worker may still be swapping the preview then.
C4_UploadAfterRenderFlag ==
    /\ inst_workers[Self] = 1
    /\ upload_threads <= 1
    /\ up_pc # "idle" => (conversion_done /\ render_pc \in RenderTail)

\* C4 witness: the upload worker runs while the render worker has not ended.
C4_Witness == UploadRunning /\ RenderRunning /\ upload_threads = 1

\* C5: a failure of launch_resolve_headless or headless_render in the render
\* worker leaves the process exited (no retry exists in _run_conversion).
C5_RenderFailureExits == render_pc = "failed" => inst[Self] = "exited"

\* C6: in the chunk loop an exception leads to the sleep and then to
\* next_chunk again, with upload_done and fid untouched; the loop is left
\* only with a file id of the Drive API in fid.
C6_ChunkRetry ==
    [][/\ (up_pc = "next_chunk" /\ chunk_failures' > chunk_failures)
            => (up_pc' = "sleep" /\ fid' = None /\ ~upload_done'
                /\ chunks_sent' = chunks_sent)
       /\ up_pc = "sleep" => (up_pc' \in {"sleep", "next_chunk"} /\ ~upload_done')
       /\ (up_pc \in {"next_chunk", "sleep"} /\ up_pc' \notin {"next_chunk", "sleep"})
            => (up_pc' = "perm" /\ fid' \in FileIds)
       /\ upload_done' => fid' \in FileIds]_vars

\* C6 witness: after an exception the worker is requesting the chunk again.
C6_Witness == up_pc = "next_chunk" /\ chunk_failures > 0 /\ attempt > 0 /\ ~upload_done

\* A cloud call that is not retried has failed: the thread that made it ended.
CloudCallGaveUp == up_pc = "dead" \/ wait_pc = "dead"

\* The email and every SMS message have been handed to Gmail, in order, and
\* the label shows 'Sent!  Check email & SMS.'.
Delivered ==
    /\ upload_label = <<"Sent">>
    /\ Len(outbox) = 1 + Len(recipient_sms_numbers)
    /\ outbox[1].to = recipient_email
    /\ \A k \in 1..Len(recipient_sms_numbers) : outbox[k + 1].to = recipient_sms_numbers[k]

\* C7: under fair scheduling, and as long as no cloud call fails for good,
\* a session whose Send press started the upload (render done, valid email,
\* valid phone, nonzero rating) eventually has delivered.
C7_EventuallyDelivered ==
    ([]~CloudCallGaveUp) => ((upload_threads = 1) ~> Delivered)

\* C7 witness: delivered, to the email address and the four gateways.
C7_Witness ==
    /\ Delivered
    /\ Len(recipient_sms_numbers) = Len(CARRIER_GATEWAYS)
    /\ is_valid_phone(phone_var)
    /\ upload_done

\* C8: once the render worker has swapped the preview, _secondary_procs holds
\* one live player of the enhanced file per secondary monitor, every player
\* of the raw clip is terminated and out of the list, and the primary player
\* is switched (or its switch is queued on the UI thread).
C8_PreviewSwapped ==
    render_pc \in {"after", "done"} =>
        /\ Len(secondary_procs) = n_secondary
        /\ \A k \in 1..Len(secondary_procs) :
             /\ procs[secondary_procs[k]].file = ENHANCED
             /\ procs[secondary_procs[k]].alive
        /\ \A k, l \in 1..Len(secondary_procs) :
             secondary_procs[k] = secondary_procs[l] => k = l
        /\ \A i \in 1..Len(procs) :
             procs[i].file = INPUT_VIDEO =>
                 (~procs[i].alive /\ i \notin Range(secondary_procs))
        /\ render_pc = "done" => (play_pending \/ player_media = ENHANCED)

\* C8 witness: the swap is complete on a secondary monitor and the primary.
C8_Witness ==
    /\ render_pc = "done"
    /\ n_secondary > 0
    /\ player_media = ENHANCED
    /\ Len(procs) = 2 * n_secondary

Abs(x) == IF x < 0 THEN 0 - x ELSE x

\* C9: whenever conversion_done is true the file at self.converted is as long
\* as input_duration, within the tolerance (stated for a render that ran to
\* its end and an input_duration that ffprobe measured).
C9_DurationMatches ==
    (conversion_done /\ out_dur > 0 /\ input_duration = in_dur)
        => Abs(out_dur - input_duration) <= TrimTolerance

PastGuard == {"bound", "players", "ui"}

\* C10: at most one instance is past the guard; every other instance that
\* has run the guard has exited with 'Already running.', and such an
\* instance has started no player process and no worker.
C10_SingleInstance ==
    /\ Cardinality({i \in Instances : inst[i] \in PastGuard}) <= 1
    /\ \A i \in Instances :
         /\ inst[i] \in PastGuard => port_owner = i
         /\ inst[i] = "refused" => (inst_players[i] = 0 /\ inst_workers[i] = 0)
         /\ (inst_players[i] > 0 \/ inst_workers[i] > 0) => inst[i] \in PastGuard
         /\ (inst[i] \notin {"off", "start"} /\ port_owner # i) => inst[i] = "refused"

\* C10 witness: one instance runs its UI and another has been refused.
C10_Witness ==
    \E i, j \in Instances :
        inst[i] = "ui" /\ inst_workers[i] = 1 /\ inst[j] = "refused"

\* A step of one of the threads other than the UI thread.
WorkerStep == (RenderNext /\ ~ResolveFinishes) \/ UploadNext \/ WaitNext

\* C11: a step of a background thread schedules no UI callback (the timers,
\* the queued _play) and writes no widget (the primary player, the status
\* label, upload_label): the threads meet the UI thread in the polled fields
\* only.
C11_WorkersLeaveUiAlone ==
    [][WorkerStep => UNCHANGED <<play_pending, progress_timer, upload_timer,
                                 player_media, status, upload_label>>]_vars

\* C12 as stated: the connection step is left only with a connection; it
\* never gives up with an error.
C12_ConnectNeverGivesUp ==
    [][render_pc = "connect" => render_pc' \in {"connect", "setup"}]_vars

\* C12 amended: a failed attempt to connect is followed by another attempt
\* as long as fewer than ConnectAttempts attempts have failed; the step
\* gives up with RuntimeError after exactly ConnectAttempts failed attempts,
\* and not before.
C12_ConnectRetriesThirty ==
    [][render_pc = "connect" =>
         /\ render_pc' \in {"connect", "setup", "failed"}
         /\ connect_try' # connect_try =>
               \/ render_pc' = "connect" /\ connect_try' = connect_try + 1
                    /\ connect_try < ConnectAttempts
               \/ render_pc' \in {"setup", "failed"} /\ connect_try' = 0
         /\ render_pc' = "failed" => connect_try = ConnectAttempts
         /\ render_pc' = "setup" => connect_try < ConnectAttempts]_vars

\* C12 witness: every attempt of the connection step has failed.
C12_Witness == render_pc = "connect" /\ connect_try = ConnectAttempts

\* C13: the polling loop is left only when the render application is no
\* longer rendering, so conversion_done is true only with the file complete.
C13_PollFailureRetried ==
    /\ render_pc = "quit" => ~resolve_rendering
    /\ conversion_done => out_dur > 0

\* The fields the UI callbacks write.
uiFields == <<rating, recipient_email, recipient_sms_numbers>>

\* C14: converted and conversion_done change only in steps of the render
\* worker, the upload fields only in steps of the (single) upload worker,
\* rating, recipient_email and recipient_sms_numbers only in UI callbacks;
\* no step of any other thread changes them.
C14_SingleWriter ==
    [][/\ renderFlags' # renderFlags =>
            (RenderNext /\ ~ResolveFinishes /\ ~(UINext \/ UploadNext \/ WaitNext))
       /\ uploadFields' # uploadFields =>
            (UploadNext /\ upload_threads = 1 /\ ~(UINext \/ RenderNext \/ WaitNext))
       /\ uiFields' # uiFields => (UINext /\ ~WorkerStep)]_vars

\* C14 witness: every one of the fields has been written.
C14_Witness ==
    /\ conversion_done /\ converted # None
    /\ upload_done /\ upload_frac > 0 /\ upload_link # <<>>
    /\ rating # 0 /\ recipient_email # <<>> /\ recipient_sms_numbers # <<>>

\* The status label reads "It's complete".
ShowsComplete == status = <<"complete">>

\* C15: the status label reads "It's complete" only once the timer callback
\* has seen conversion_done true, and then the timer is not rescheduled and
\* the label stays; until then the label reads 'Enhancing: N%' with
\* 0 <= N <= 99 and the timer is pending; after a failure of the render
\* worker the timer stays pending and the label never reads completion.
C15_StatusLabel ==
    /\ [](/\ ShowsComplete => (conversion_done /\ ~progress_timer)
          /\ ~ShowsComplete =>
                /\ Len(status) = 2
                /\ status[1] = "Enhancing"
                /\ status[2] \in 0..99
                /\ progress_timer
          /\ render_pc = "failed" => (progress_timer /\ ~ShowsComplete))
    /\ [][/\ (~ShowsComplete /\ ShowsComplete') => (ProgressTick /\ conversion_done)
          /\ ShowsComplete => ShowsComplete'
          /\ render_pc = "failed" => render_pc' = "failed"]_vars

\* C15 witness: the timer has seen the completion and shown it.
C15_Witness == ShowsComplete /\ conversion_done /\ ~progress_timer /\ render_pc = "done"

\* C16: conversion_done implies that converted holds the rendered file's
\* path, so the upload worker never runs with converted = None;
\* conversion_done never returns to false and converted, once set, never
\* changes.
C16_ConvertedBeforeDone ==
    /\ [](/\ conversion_done => converted = ENHANCED
          /\ up_pc # "idle" => converted = ENHANCED)
    /\ [][/\ conversion_done => conversion_done'
          /\ converted # None => converted' = converted]_vars

\* C16 witness: the upload worker has been started, with the path set.
C16_Witness == conversion_done /\ converted = ENHANCED /\ up_pc = "build"

\* The links built from a file id of the Drive API.
RealLinks == {Link(f) : f \in FileIds}

\* C17: upload_done implies upload_frac = 1.0, upload_rem = 0 and an
\* upload_link built from a file id; upload_done never returns to false;
\* every message handed to Gmail carries such a link, never the text 'None'.
C17_UploadDoneComplete ==
    /\ [](/\ upload_done =>
                (upload_frac = 100 /\ upload_rem = 0 /\ upload_link \in RealLinks)
          /\ \A k \in 1..Len(outbox) :
                /\ SubSeq(outbox[k].body, 2, Len(outbox[k].body)) \in RealLinks
                /\ "None" \notin Range(outbox[k].body))
    /\ [][upload_done => upload_done']_vars

\* C17 witness: the upload is done and final_delivery has sent a message.
C17_Witness == upload_done /\ Len(outbox) > 0 /\ upload_frac = 100

\* C18: on the rating screen the Send button is displayed enabled whenever
\* conversion_done is true and rating is nonzero, whichever came first.
C18_SendButtonEnabled ==
    (screen = "rating" /\ conversion_done /\ rating # 0) => send_btn = "normal"

\* C19: upload_done is set, and a message with the link is sent, only after
\* the permissions call for the uploaded file has succeeded.
C19_PermissionsBeforeLink ==
    /\ upload_done => perm_set
    /\ Len(outbox) > 0 => perm_set

====
